---- MODULE Spec2Model ----
(***************************************************************************)
(* Model of the extract_srt_subtitles_with_iso plugin                      *)
(* (src/source/extract_srt_subtitles_with_iso/plugin.py).                  *)
(*                                                                         *)
(* A Python str is a sequence of one-character strings, a dict is a        *)
(* function whose DOMAIN is its set of keys, None is the value None below, *)
(* and an uncaught exception is recorded by its class name.                *)
(***************************************************************************)
EXTENDS Integers, Sequences, FiniteSets, TLC

VARIABLES settings, probe, sub_streams, stream_count, pc, last, exec_command

vars == <<settings, probe, sub_streams, stream_count, pc, last, exec_command>>

(***************************************************************************)
(* Bounds of the model.                                                    *)
(***************************************************************************)
\* Largest number of subtitle streams in a multi-stream container.
MaxStreams == 2

\* Largest stream index of a stream in a single-stream container.
MaxIndex == 12

(***************************************************************************)
(* Python values and built-ins.                                            *)
(***************************************************************************)
\* Python's None (what dict.get returns for a missing key).
None == <<"<None>">>

\* The state of a local variable that no assignment has bound yet.
Unbound == <<"<unbound>">>

\* dict.get(key): the value, or None when the key is missing.
Get(d, k) == IF k \in DOMAIN d THEN d[k] ELSE None

\* Truth value of an optional string: None and '' are false.
Truthy(v) == v # None /\ v # <<>>

UpperChars ==
  <<"A", "B", "C", "D", "E", "F", "G", "H", "I", "J", "K", "L", "M", "N",
    "O", "P", "Q", "R", "S", "T", "U", "V", "W", "X", "Y", "Z", "É">>

LowerChars ==
  <<"a", "b", "c", "d", "e", "f", "g", "h", "i", "j", "k", "l", "m", "n",
    "o", "p", "q", "r", "s", "t", "u", "v", "w", "x", "y", "z", "é">>

\* str.lower() on one character.
LowerChar(c) ==
  IF \E i \in 1..Len(UpperChars) : UpperChars[i] = c
  THEN LowerChars[CHOOSE i \in 1..Len(UpperChars) : UpperChars[i] = c]
  ELSE c

\* str.lower().
lower(s) == [i \in 1..Len(s) |-> LowerChar(s[i])]

\* needle in hay, for two strings.
Contains(needle, hay) ==
  \E i \in 0..(Len(hay) - Len(needle)) :
    SubSeq(hay, i + 1, i + Len(needle)) = needle

\* The characters the regular expression \s matches.
Whitespace == {" ", "\t", "\n", "\r", "\f"}

\* s with every maximal run of whitespace replaced by one hyphen.
RECURSIVE CollapseRuns(_)
CollapseRuns(s) ==
  IF s = <<>> THEN <<>>
  ELSE IF Head(s) \notin Whitespace THEN <<Head(s)>> \o CollapseRuns(Tail(s))
  ELSE IF Len(s) > 1 /\ s[2] \in Whitespace THEN CollapseRuns(Tail(s))
  ELSE <<"-">> \o CollapseRuns(Tail(s))

\* Variant of re_sub that replaces a whole run of whitespace at once, as
\* re.sub('\s+', '-', s) would.
re_sub_RunsCollapsed(s) == CollapseRuns(s)

\* Variant of re_sub that replaces spaces only, as s.replace(' ', '-') would.
re_sub_SpacesOnly(s) == [i \in 1..Len(s) |-> IF s[i] = " " THEN "-" ELSE s[i]]

\* re.sub('\s', '-', s): every match of \s, one character, becomes '-'.
re_sub(s) == [i \in 1..Len(s) |-> IF s[i] \in Whitespace THEN "-" ELSE s[i]]

DecimalDigits == <<"0", "1", "2", "3", "4", "5", "6", "7", "8", "9">>

\* str(n) of a non-negative int, as '{}'.format(n) renders it.
RECURSIVE str(_)
str(n) ==
  IF n < 10 THEN <<DecimalDigits[n + 1]>>
  ELSE str(n \div 10) \o <<DecimalDigits[(n % 10) + 1]>>

\* "{}.{}".format(a, b).
format(a, b) == a \o <<".">> \o b

(***************************************************************************)
(* babelfish.Language: the four codes of the languages the model knows.    *)
(***************************************************************************)
Languages ==
  { [alpha2 |-> <<"e", "n">>, alpha3b |-> <<"e", "n", "g">>,
     alpha3 |-> <<"e", "n", "g">>, opensubtitles |-> <<"e", "n", "g">>],
    [alpha2 |-> <<"f", "r">>, alpha3b |-> <<"f", "r", "e">>,
     alpha3 |-> <<"f", "r", "a">>, opensubtitles |-> <<"f", "r", "e">>],
    [alpha2 |-> <<"p", "t">>, alpha3b |-> <<"p", "o", "r">>,
     alpha3 |-> <<"p", "o", "r">>, opensubtitles |-> <<"p", "o", "r">>],
    [alpha2 |-> <<"e", "s">>, alpha3b |-> <<"s", "p", "a">>,
     alpha3 |-> <<"s", "p", "a">>, opensubtitles |-> <<"s", "p", "a">>],
    [alpha2 |-> <<"e", "l">>, alpha3b |-> <<"g", "r", "e">>,
     alpha3 |-> <<"e", "l", "l">>, opensubtitles |-> <<"e", "l", "l">>] }

\* The value '' that language takes when every lookup raised.
NoLanguage ==
  [alpha2 |-> <<>>, alpha3b |-> <<>>, alpha3 |-> <<>>, opensubtitles |-> <<>>]

\* Language.fromalpha2 and its siblings: the language with that code in
\* the given column; the lookup raises when there is none, Raised below.
Raised == [alpha2 |-> None, alpha3b |-> None, alpha3 |-> None,
           opensubtitles |-> None]

fromcode(column, code) ==
  IF \E l \in Languages : l[column] = code
  THEN CHOOSE l \in Languages : l[column] = code
  ELSE Raised

\* Lines 177-194: the lookup cascade with its try/except blocks.
LookupLanguage(stream_lang) ==
  IF Len(stream_lang) = 2
  THEN IF fromcode("alpha2", stream_lang) # Raised
       THEN fromcode("alpha2", stream_lang)
       ELSE NoLanguage
  ELSE IF Len(stream_lang) = 3
  THEN IF fromcode("alpha3b", stream_lang) # Raised
       THEN fromcode("alpha3b", stream_lang)
       ELSE IF fromcode("alpha3", stream_lang) # Raised
       THEN fromcode("alpha3", stream_lang)
       ELSE IF fromcode("opensubtitles", stream_lang) # Raised
       THEN fromcode("opensubtitles", stream_lang)
       ELSE NoLanguage
  ELSE NoLanguage

(***************************************************************************)
(* PluginStreamMapper.test_stream_needs_processing (lines 142-146).        *)
(***************************************************************************)
\* Variant of test_stream_needs_processing that compares the codec name
\* as it is, without lower().
test_stream_needs_processing_CaseSensitive(stream_info) ==
  IF Get(stream_info, "codec_name") = None
  THEN [raised |-> "AttributeError", ret |-> FALSE]
  ELSE [raised |-> "none",
        ret |-> Get(stream_info, "codec_name") \in
                  { <<"s", "r", "t">>,
                    <<"s", "u", "b", "r", "i", "p">>,
                    <<"m", "o", "v", "_", "t", "e", "x", "t">> }]

\* The result of one call: the exception it raised, if any, and the value
\* it returned. None.lower() is an AttributeError.
test_stream_needs_processing(stream_info) ==
  IF Get(stream_info, "codec_name") = None
  THEN [raised |-> "AttributeError", ret |-> FALSE]
  ELSE [raised |-> "none",
        ret |-> lower(Get(stream_info, "codec_name")) \in
                  { <<"s", "r", "t">>,
                    <<"s", "u", "b", "r", "i", "p">>,
                    <<"m", "o", "v", "_", "t", "e", "x", "t">> }]

(***************************************************************************)
(* PluginStreamMapper.custom_stream_mapping (lines 148-291).               *)
(***************************************************************************)
\* Lines 196-211: the code of the language in the format of the settings.
LanguageTag(language, language_code) ==
  IF language_code = "1" THEN language.alpha2
  ELSE IF language_code = "2" THEN language.alpha3b
  ELSE IF language_code = "3" THEN language.alpha3
  ELSE IF language_code = "4" THEN language.opensubtitles
  ELSE <<>>

\* Lines 213-243: the region keywords of the title. The result holds
\* language_tag and region_tag as the block leaves them; region_tag stays
\* Unbound when no assignment to it ran.
RegionalDetection(language, stream_title, latin_spanish, language_tag) ==
  LET has(w) == Contains(w, stream_title)
      keep(region) == [language_tag |-> language_tag, region_tag |-> region]
  IN
  IF language.alpha2 = <<"e", "n">>
  THEN IF \/ (has(<<"u", "n", "i", "t", "e", "d">>)
                /\ has(<<"s", "t", "a", "t", "e", "s">>))
          \/ has(<<"u", "s", "a">>)
          \/ has(<<"a", "m", "e", "r", "i", "c", "a">>)
       THEN keep(<<"U", "S">>)
       ELSE IF \/ (has(<<"u", "n", "i", "t", "e", "d">>)
                     /\ has(<<"k", "i", "n", "g", "d", "o", "m">>))
               \/ (has(<<"g", "r", "e", "a", "t">>)
                     /\ has(<<"b", "r", "i", "t", "a", "i", "n">>))
               \/ has(<<"u", "k">>)
       THEN keep(<<"G", "B">>)
       ELSE IF has(<<"a", "u", "s", "t", "r", "a", "l", "i", "a">>)
       THEN keep(<<"A", "U">>)
       ELSE IF has(<<"c", "a", "n", "a", "d">>)
       THEN keep(<<"C", "A">>)
       ELSE IF has(<<"z", "e", "a", "l", "a", "n", "d">>)
       THEN keep(<<"N", "Z">>)
       ELSE keep(Unbound)
  ELSE IF language.alpha2 = <<"f", "r">>
  THEN IF \/ has(<<"c", "a", "n", "a", "d">>)
          \/ has(<<"q", "u", "e", "b", "e", "c">>)
          \/ has(<<"q", "u", "é", "b", "é", "c">>)
       THEN keep(<<"C", "A">>)
       ELSE IF has(<<"b", "e", "l", "g", "i">>)
       THEN keep(<<"B", "E">>)
       ELSE keep(Unbound)
  ELSE IF language.alpha2 = <<"p", "t">>
  THEN IF has(<<"b", "r", "a", "z", "i", "l">>)
            \/ has(<<"b", "r", "a", "s", "i", "l">>)
       THEN keep(<<"B", "R">>)
       ELSE keep(Unbound)
  ELSE IF language.alpha2 = <<"e", "s">>
  THEN LET mexico == IF has(<<"m", "e", "x", "i", "c">>)
                          \/ has(<<"m", "é", "x", "i", "c">>)
                     THEN <<"M", "X">>
                     ELSE Unbound
       IN IF has(<<"l", "a", "t", "i", "n">>)
               \/ has(<<"a", "m", "e", "r", "i", "c", "a">>)
          THEN IF latin_spanish = "1"
               THEN [language_tag |-> <<"e", "a">>, region_tag |-> mexico]
               ELSE IF latin_spanish = "2"
               THEN [language_tag |-> language_tag,
                     region_tag |-> <<"4", "1", "9">>]
               ELSE keep(mexico)
          ELSE keep(mexico)
  ELSE keep(Unbound)

\* Lines 247-251: the hearing-impaired segment.
SdhTag(use_sdh_extension, stream_title) ==
  IF /\ use_sdh_extension # <<>>
     /\ \/ Contains(<<"s", "d", "h">>, stream_title)
        \/ Contains(<<"c", "c">>, stream_title)
        \/ Contains(<<"h", "i">>, stream_title)
  THEN use_sdh_extension
  ELSE <<>>

\* Lines 253-256: the forced segment.
ForcedTag(use_forced_extension, stream_title) ==
  IF /\ use_forced_extension # <<>>
     /\ Contains(<<"f", "o", "r", "c", "e">>, stream_title)
  THEN use_forced_extension
  ELSE <<>>

\* Variant of AssembleTag without lines 273-274: no stream index when there
\* is no other tag.
AssembleTag_NoIndexFallback(stream_info, language_tag, region_tag, sdh_tag, forced_tag, use_title_failback, stream_title) ==
  IF language_tag # <<>>
  THEN LET a == format(<<>>, language_tag)
           b == IF region_tag # <<>> /\ region_tag # Unbound
                THEN format(a, region_tag) ELSE a
           c == IF sdh_tag # <<>> THEN format(b, sdh_tag) ELSE b
       IN IF forced_tag # <<>> THEN format(c, forced_tag) ELSE c
  ELSE IF use_title_failback /\ stream_title # <<>>
  THEN format(<<>>, Get(Get(stream_info, "tags"), "title"))
  ELSE <<>>

\* Variant of AssembleTag that takes the lower-cased stream_title at line
\* 270 instead of the title of the stream.
AssembleTag_LowerTitle(stream_info, language_tag, region_tag, sdh_tag, forced_tag, use_title_failback, stream_title) ==
  LET lang_part ==
        IF language_tag # <<>>
        THEN LET a == format(<<>>, language_tag)
                 b == IF region_tag # <<>> /\ region_tag # Unbound
                      THEN format(a, region_tag) ELSE a
                 c == IF sdh_tag # <<>> THEN format(b, sdh_tag) ELSE b
             IN IF forced_tag # <<>> THEN format(c, forced_tag) ELSE c
        ELSE IF use_title_failback /\ stream_title # <<>>
        THEN format(<<>>, stream_title)
        ELSE <<>>
  IN IF lang_part = <<>>
     THEN format(<<>>, str(Get(stream_info, "index")))
     ELSE lang_part

\* Lines 258-274: the tag before it is sanitized. Reading region_tag at
\* line 260 while it is Unbound raises, see custom_stream_mapping.
AssembleTag(stream_info, language_tag, region_tag, sdh_tag, forced_tag, use_title_failback, stream_title) ==
  LET lang_part ==
        IF language_tag # <<>>
        THEN LET a == format(<<>>, language_tag)
                 b == IF region_tag # <<>> /\ region_tag # Unbound
                      THEN format(a, region_tag) ELSE a
                 c == IF sdh_tag # <<>> THEN format(b, sdh_tag) ELSE b
             IN IF forced_tag # <<>> THEN format(c, forced_tag) ELSE c
        ELSE IF use_title_failback /\ stream_title # <<>>
        THEN format(<<>>, Get(Get(stream_info, "tags"), "title"))
        ELSE <<>>
  IN IF lang_part = <<>>
     THEN format(<<>>, str(Get(stream_info, "index")))
     ELSE lang_part

\* The whole method: the values of its locals when it returns or raises
\* (assembled is subtitle_tag before line 277 runs), the entry it appends to
\* sub_streams and the dict it returns.
custom_stream_mapping(stream_info, stream_id, st) ==
  LET stream_tags == IF "tags" \in DOMAIN stream_info
                     THEN stream_info["tags"]
                     ELSE [k \in {} |-> <<>>]
      lang0 == IF Truthy(Get(stream_tags, "language"))
               THEN lower(Get(stream_tags, "language"))
               ELSE <<>>
      stream_title == IF Truthy(Get(stream_tags, "title"))
                      THEN lower(Get(stream_tags, "title"))
                      ELSE <<>>
      stream_lang == IF lang0 = <<"u", "n", "d">> \/ lang0 = <<>>
                     THEN st.default_language
                     ELSE lang0
      language == LookupLanguage(stream_lang)
      detected ==
        IF language # NoLanguage
        THEN IF st.use_regional
             THEN RegionalDetection(language, stream_title, st.latin_spanish,
                                    LanguageTag(language, st.language_code))
             ELSE [language_tag |-> LanguageTag(language, st.language_code),
                   region_tag |-> Unbound]
        ELSE IF stream_lang # <<>>
        THEN [language_tag |-> stream_lang, region_tag |-> Unbound]
        ELSE [language_tag |-> <<>>, region_tag |-> Unbound]
      language_tag == detected.language_tag
      region_tag == detected.region_tag
      sdh_tag == SdhTag(st.use_sdh_extension, stream_title)
      forced_tag == ForcedTag(st.use_forced_extension, stream_title)
      raised == IF language_tag # <<>> /\ region_tag = Unbound
                THEN "UnboundLocalError"
                ELSE "none"
      assembled ==
        IF raised # "none"
        THEN format(<<>>, language_tag)
        ELSE AssembleTag(stream_info, language_tag, region_tag, sdh_tag,
                         forced_tag, st.use_title_failback, stream_title)
      subtitle_tag == IF raised # "none" THEN assembled ELSE re_sub(assembled)
      stream_mapping == << <<"-", "m", "a", "p">>,
                           <<"0", ":", "s", ":">> \o str(stream_id) >>
  IN [raised |-> raised,
      stream_lang |-> stream_lang,
      stream_title |-> stream_title,
      language |-> language,
      language_tag |-> language_tag,
      region_tag |-> region_tag,
      sdh_tag |-> sdh_tag,
      forced_tag |-> forced_tag,
      assembled |-> assembled,
      subtitle_tag |-> subtitle_tag,
      entry |-> [stream_id |-> stream_id,
                 subtitle_tag |-> subtitle_tag,
                 stream_mapping |-> stream_mapping],
      ret |-> [stream_mapping |-> stream_mapping,
               stream_encoding |->
                 << <<"-", "c", ":", "s", ":">> \o str(stream_id),
                    <<"c", "o", "p", "y">> >>]]

(***************************************************************************)
(* The inputs: the settings of the form (lines 36-131) and the containers  *)
(* the probe hands to the mapper.                                          *)
(***************************************************************************)
\* Every combination of the options of the settings form; default_language
\* is free text, here empty or 'en' (its default).
SettingsInputs ==
  [language_code : {"1", "2", "3", "4"},
   use_sdh_extension : {<<>>, <<"s", "d", "h">>, <<"c", "c">>, <<"h", "i">>},
   use_forced_extension : {<<>>, <<"f", "o", "r", "c", "e", "d">>},
   default_language : {<<>>, <<"e", "n">>},
   use_title_failback : BOOLEAN,
   use_regional : BOOLEAN,
   latin_spanish : {"1", "2"}]

\* One stream of the probe. A None argument leaves the key out of the dict;
\* a stream with neither tag has no 'tags' key.
StreamInfo(codec_name, index, language, title) ==
  LET tagkeys == (IF language # None THEN {"language"} ELSE {})
                   \cup (IF title # None THEN {"title"} ELSE {})
      tags == [k \in tagkeys |-> IF k = "language" THEN language ELSE title]
      keys == {"index"}
                \cup (IF codec_name # None THEN {"codec_name"} ELSE {})
                \cup (IF tagkeys # {} THEN {"tags"} ELSE {})
  IN [k \in keys |-> IF k = "index" THEN index
                     ELSE IF k = "codec_name" THEN codec_name
                     ELSE tags]

CodecInputs ==
  { None, <<>>,
    <<"s", "r", "t">>, <<"S", "R", "T">>,
    <<"s", "u", "b", "r", "i", "p">>, <<"S", "u", "b", "R", "i", "p">>,
    <<"m", "o", "v", "_", "t", "e", "x", "t">>,
    <<"M", "O", "V", "_", "T", "E", "X", "T">>,
    <<"a", "s", "s">>, <<"s", "r", "t", " ">>, <<"t", "e", "x", "t">>,
    <<"s", "u", "b", "r", "i", "p", "2">>,
    <<"w", "e", "b", "v", "t", "t">>,
    <<"d", "v", "d", "_", "s", "u", "b", "t", "i", "t", "l", "e">>,
    <<"h", "d", "m", "v", "_", "p", "g", "s", "_",
      "s", "u", "b", "t", "i", "t", "l", "e">> }

LanguageInputs ==
  { None, <<>>, <<"U", "n", "d">>, <<"e", "n", "g">>, <<"E", "N">>,
    <<"s", "p", "a">>, <<"f", "r", "a">>, <<"p", "o", "r">>, <<"x", "x">>,
    <<"e", " ", "n">> }

TitleInputs ==
  { None, <<>>,
    <<"E", "n", "g", "l", "i", "s", "h", " ", "(", "U", "S", "A", ")">>,
    <<"L", "a", "t", "i", "n", " ", "A", "m", "e", "r", "i", "c", "a">>,
    <<"M", "e", "x", "i", "c", "o", " ", "L", "a", "t", "i", "n", "o">>,
    <<"M", "e", "x", "i", "c", "o">>,
    <<"D", "i", "r", "e", "c", "t", "o", "r", " ",
      "C", "o", "m", "m", "e", "n", "t", "a", "r", "y">>,
    <<"D", "i", "r", "e", "c", "t", "o", "r", " ", " ",
      "C", "o", "m", "m", "e", "n", "t", "a", "r", "y">>,
    <<"T", "a", "b", "\t", "a", "n", "d", "\n", "l", "i", "n", "e">>,
    <<"C", "a", "n", "a", "d", "i", "a", "n", " ", "S", "D", "H", " ",
      "F", "o", "r", "c", "e", "d">>,
    <<"B", "r", "a", "s", "i", "l">>,
    <<"U", "K", " ", "f", "o", "r", "c", "e", "d">> }

IndexInputs == {4, MaxIndex}

\* Containers with one subtitle stream: every codec with a plain stream,
\* and every combination of tags and index with a text codec.
SingleStreamContainers ==
  { <<StreamInfo(c, 0, <<"e", "n", "g">>, None)>> : c \in CodecInputs }
    \cup
  { <<StreamInfo(<<"s", "u", "b", "r", "i", "p">>, i, l, t)>> :
      i \in IndexInputs, l \in LanguageInputs, t \in TitleInputs }

\* The streams of the containers with several subtitle streams, as
\* <<codec_name, language, title>>.
PassStreams ==
  { << <<"s", "u", "b", "r", "i", "p">>, <<"e", "n", "g">>, <<"U", "S", "A">> >>,
    << <<"s", "u", "b", "r", "i", "p">>, <<"s", "p", "a">>,
       <<"M", "e", "x", "i", "c", "o">> >>,
    << <<"s", "r", "t">>, None, None >>,
    << <<"s", "r", "t">>, None, <<"1">> >>,
    << <<"h", "d", "m", "v", "_", "p", "g", "s", "_",
         "s", "u", "b", "t", "i", "t", "l", "e">>, <<"e", "n", "g">>, None >> }

\* Containers with 2..MaxStreams subtitle streams; the probe numbers the
\* streams of a container in order, so their indexes are distinct.
MultiStreamContainers ==
  UNION { { [k \in 1..n |-> StreamInfo(c[k][1], k - 1, c[k][2], c[k][3])] :
              c \in [1..n -> PassStreams] } : n \in 2..MaxStreams }

Containers == SingleStreamContainers \cup MultiStreamContainers

(***************************************************************************)
(* The state machine: one pass of the mapper over the streams of a probe.  *)
(***************************************************************************)
NoCall == [op |-> "none", raised |-> "none"]

\* PluginStreamMapper() followed by set_settings and set_probe.
Init ==
  /\ settings \in SettingsInputs
  /\ probe \in Containers
  /\ sub_streams = <<>>
  /\ stream_count = 0
  /\ pc = "test"
  /\ last = NoCall
  /\ exec_command = <<>>

\* The mapper moves on to the next stream of the probe.
NextStream ==
  /\ stream_count' = stream_count + 1
  /\ pc' = IF stream_count + 1 = Len(probe) THEN "done" ELSE "test"

\* The stream the mapper is at: stream_count streams are behind it.
CurrentStream == probe[stream_count + 1]

\* The mapper asks test_stream_needs_processing about the next stream.
TestStream ==
  /\ pc = "test"
  /\ LET r == test_stream_needs_processing(CurrentStream)
     IN /\ last' = [op |-> "test_stream_needs_processing",
                    stream_info |-> CurrentStream,
                    raised |-> r.raised,
                    ret |-> r.ret]
        /\ IF r.raised # "none"
           THEN pc' = "raised" /\ UNCHANGED stream_count
           ELSE IF r.ret
           THEN pc' = "map" /\ UNCHANGED stream_count
           ELSE NextStream
  /\ UNCHANGED <<settings, probe, sub_streams, exec_command>>

\* The mapper calls custom_stream_mapping on a stream that needs processing.
MapStream ==
  /\ pc = "map"
  /\ LET r == custom_stream_mapping(CurrentStream, stream_count, settings)
     IN /\ last' = [op |-> "custom_stream_mapping",
                    stream_info |-> CurrentStream,
                    stream_id |-> stream_count,
                    raised |-> r.raised,
                    locals |-> r]
        /\ IF r.raised # "none"
           THEN pc' = "raised" /\ UNCHANGED <<stream_count, sub_streams>>
           ELSE sub_streams' = Append(sub_streams, r.entry) /\ NextStream
  /\ UNCHANGED <<settings, probe, exec_command>>

(***************************************************************************)
(* on_worker_process (lines 372-444): the command built after the pass.    *)
(***************************************************************************)
\* data['original_file_path'], the absolute path of the original file.
original_file_path == <<"/", "m", "/", "a", ".", "m", "k", "v">>

\* data['file_in'], the file the mapper reads.
file_in == <<"/", "c", "/", "a", ".", "m", "k", "v">>

\* The position of the last c in p, 0 when there is none.
LastPosition(c, p) ==
  IF \E i \in 1..Len(p) : p[i] = c
  THEN CHOOSE i \in 1..Len(p) : p[i] = c /\ \A j \in (i + 1)..Len(p) : p[j] # c
  ELSE 0

\* os.path.splitext(p)[0]: p without the extension of its last component.
splitext_root(p) ==
  LET slash == LastPosition("/", p)
      dot == LastPosition(".", p)
  IN IF dot > slash + 1 THEN SubSeq(p, 1, dot - 1) ELSE p

\* os.path.dirname(p): p up to its last slash, '/' for a file in the root.
dirname(p) ==
  LET slash == LastPosition("/", p)
  IN IF slash = 0 THEN <<>>
     ELSE IF slash = 1 THEN <<"/">>
     ELSE SubSeq(p, 1, slash - 1)

\* os.path.join(a, b): an absolute b replaces a.
join(a, b) ==
  IF b # <<>> /\ b[1] = "/" THEN b
  ELSE IF a = <<>> \/ a[Len(a)] = "/" THEN a \o b
  ELSE a \o <<"/">> \o b

\* The option lists of the StreamMapper base class, which plugin.py does
\* not set; empty here.
generic_options == <<>>

main_options == <<>>

advanced_options == <<>>

\* PluginStreamMapper.get_ffmpeg_args (lines 293-316), with the input file
\* that set_input_file stored.
get_ffmpeg_args(input_file) ==
  generic_options \o << <<"-", "i">>, input_file >> \o main_options
    \o advanced_options

\* Lines 427-435: ffmpeg_args with the arguments of the first n entries of
\* sub_streams appended.
RECURSIVE ExtractArgs(_, _)
ExtractArgs(ffmpeg_args, n) ==
  IF n = 0 THEN ffmpeg_args
  ELSE ExtractArgs(ffmpeg_args, n - 1)
         \o sub_streams[n].stream_mapping
         \o << <<"-", "y">>,
               join(dirname(original_file_path),
                    splitext_root(original_file_path)
                      \o sub_streams[n].subtitle_tag
                      \o <<".", "s", "r", "t">>) >>

\* mapper.streams_need_processing() of line 419, once the pass is over: a
\* stream was found that needs processing.
streams_need_processing ==
  \E k \in 1..Len(probe) : test_stream_needs_processing(probe[k]).ret

\* on_worker_process after the pass has returned: lines 419-439. A pass
\* that raised leaves exec_command as line 393 set it.
BuildCommand ==
  /\ pc = "done"
  /\ exec_command' =
       IF streams_need_processing
       THEN << <<"f", "f", "m", "p", "e", "g">> >>
              \o ExtractArgs(get_ffmpeg_args(file_in), Len(sub_streams))
       ELSE <<>>
  /\ pc' = "built"
  /\ UNCHANGED <<settings, probe, sub_streams, stream_count, last>>

Next == TestStream \/ MapStream \/ BuildCommand

Spec == Init /\ [][Next]_vars

(***************************************************************************)
(* Vocabulary of the properties below.                                     *)
(***************************************************************************)
LastIsFilter == last.op = "test_stream_needs_processing"

LastIsMapping == last.op = "custom_stream_mapping"

LastReturned == last.raised = "none"

\* A tag of a stream, None when the stream does not have it.
TagValue(stream_info, key) ==
  IF "tags" \in DOMAIN stream_info
  THEN Get(stream_info["tags"], key)
  ELSE None

\* The tag of the stream of the last call.
LastTag(key) == TagValue(last.stream_info, key)

\* a spells the lower-case word w in some mix of upper and lower case.
SpellsIgnoringCase(a, w) ==
  /\ Len(a) = Len(w)
  /\ \A i \in 1..Len(w) :
       \/ a[i] = w[i]
       \/ \E j \in 1..Len(UpperChars) :
            UpperChars[j] = a[i] /\ LowerChars[j] = w[i]

\* The stream has no usable language tag: missing, empty or 'und'.
LanguageAbsent(stream_info) ==
  \/ TagValue(stream_info, "language") = None
  \/ TagValue(stream_info, "language") = <<>>
  \/ SpellsIgnoringCase(TagValue(stream_info, "language"), <<"u", "n", "d">>)

TitleAbsent(stream_info) ==
  TagValue(stream_info, "title") = None \/ TagValue(stream_info, "title") = <<>>

LastLanguageAbsent == LanguageAbsent(last.stream_info)

LastTitleAbsent == TitleAbsent(last.stream_info)

\* The stream gets neither a language tag nor its title as tag.
FallsBackToIndex(stream_info) ==
  /\ LanguageAbsent(stream_info)
  /\ settings.default_language = <<>>
  /\ (~ settings.use_title_failback \/ TitleAbsent(stream_info))

\* The tag and the locals of the last call of custom_stream_mapping.
LastSubtitleTag == last.locals.subtitle_tag

LastTitleLower == last.locals.stream_title

\* The number a string of decimal digits denotes, -1 if it is not one.
RECURSIVE DecimalValue(_)
DecimalValue(d) ==
  IF d = <<>> THEN -1
  ELSE LET units == IF \E v \in 0..9 : DecimalDigits[v + 1] = d[Len(d)]
                    THEN CHOOSE v \in 0..9 : DecimalDigits[v + 1] = d[Len(d)]
                    ELSE -1
           front == SubSeq(d, 1, Len(d) - 1)
       IN IF units = -1 THEN -1
          ELSE IF front = <<>> THEN units
          ELSE IF DecimalValue(front) = -1 THEN -1
          ELSE 10 * DecimalValue(front) + units

(***************************************************************************)
(* The properties.                                                         *)
(***************************************************************************)
\* C1: custom_stream_mapping is total: every call returns without raising
\* and appends an entry with a tag, also for a stream whose language was
\* found without a region keyword.
C1_ResolveTotal ==
  LastIsMapping =>
    /\ LastReturned
    /\ sub_streams # <<>>
    /\ sub_streams[Len(sub_streams)].subtitle_tag # <<>>

\* C2: test_stream_needs_processing returns true exactly for the codec
\* names that spell srt, subrip or mov_text in any mix of cases.
C2_FilterAcceptsExactlyTextCodecs ==
  (LastIsFilter /\ "codec_name" \in DOMAIN last.stream_info) =>
    /\ LastReturned
    /\ last.ret <=>
         \E w \in { <<"s", "r", "t">>,
                    <<"s", "u", "b", "r", "i", "p">>,
                    <<"m", "o", "v", "_", "t", "e", "x", "t">> } :
           SpellsIgnoringCase(last.stream_info["codec_name"], w)

\* C2 witness: a mixed-case spelling was accepted and another codec rejected.
C2_Witness ==
  /\ LastIsFilter
  /\ "codec_name" \in DOMAIN last.stream_info
  /\ last.stream_info["codec_name"] = <<"S", "u", "b", "R", "i", "p">>
  /\ last.ret

\* C3 as claimed: every tag of sub_streams is non-empty and no two
\* entries have the same tag.
C3_TagsNonEmptyAndUnique ==
  \A i, j \in 1..Len(sub_streams) :
    /\ sub_streams[i].subtitle_tag # <<>>
    /\ (i # j => sub_streams[i].subtitle_tag # sub_streams[j].subtitle_tag)

\* C3 as amended: every tag of sub_streams is non-empty, and two streams
\* that both fall back to their stream index have different tags.
C3_TagsNonEmptyAndIndexFallbackUnique ==
  \A i, j \in 1..Len(sub_streams) :
    /\ sub_streams[i].subtitle_tag # <<>>
    /\ ( /\ i # j
         /\ FallsBackToIndex(probe[sub_streams[i].stream_id + 1])
         /\ FallsBackToIndex(probe[sub_streams[j].stream_id + 1]) )
       => sub_streams[i].subtitle_tag # sub_streams[j].subtitle_tag

\* C3 witness: two streams of one container both fell back to their index.
C3_Witness ==
  \E i, j \in 1..Len(sub_streams) :
    /\ i # j
    /\ FallsBackToIndex(probe[sub_streams[i].stream_id + 1])
    /\ FallsBackToIndex(probe[sub_streams[j].stream_id + 1])

\* C4: every tag appended to sub_streams is a dot followed by at least one
\* character, and none of its characters is whitespace.
C4_NoWhitespaceInTag ==
  \A i \in 1..Len(sub_streams) :
    LET tag == sub_streams[i].subtitle_tag
    IN /\ Len(tag) >= 2
       /\ tag[1] = "."
       /\ \A k \in 1..Len(tag) : tag[k] \notin {" ", "\t", "\n", "\r", "\f"}

\* C4 witness: a tag was appended that comes from a title with a tab and a
\* newline in it.
C4_Witness ==
  /\ LastIsMapping
  /\ LastReturned
  /\ sub_streams # <<>>
  /\ \E k \in 1..Len(last.locals.assembled) : last.locals.assembled[k] = "\t"
  /\ \E k \in 1..Len(last.locals.assembled) : last.locals.assembled[k] = "\n"

\* C5: a missing, empty or 'und' language is absent; with default_language
\* 'en', an empty title and the 2-letter format the tag is '.en', and with
\* an empty default_language there is no language tag.
C5_DefaultLanguageSubstitution ==
  (LastIsMapping /\ LastLanguageAbsent) =>
    /\ settings.default_language = <<>> => last.locals.language_tag = <<>>
    /\ ( /\ settings.default_language = <<"e", "n">>
         /\ settings.language_code = "1"
         /\ LastTitleAbsent )
       => (LastReturned /\ LastSubtitleTag = <<".", "e", "n">>)

\* C6: with a language tag the tag is '.'+language_tag, then '.'+region_tag
\* if a region was detected, then the SDH suffix if it is set and the title
\* has sdh, cc or hi, then the forced suffix if it is set and the title has
\* force; without a language tag neither suffix is emitted.
C6_AssemblyOrder ==
  LastIsMapping =>
    LET l == last.locals
        region == IF l.region_tag = Unbound \/ l.region_tag = <<>>
                  THEN <<>> ELSE <<".">> \o l.region_tag
        sdh == IF /\ settings.use_sdh_extension # <<>>
                  /\ \/ Contains(<<"s", "d", "h">>, LastTitleLower)
                     \/ Contains(<<"c", "c">>, LastTitleLower)
                     \/ Contains(<<"h", "i">>, LastTitleLower)
               THEN <<".">> \o settings.use_sdh_extension ELSE <<>>
        forced == IF /\ settings.use_forced_extension # <<>>
                     /\ Contains(<<"f", "o", "r", "c", "e">>, LastTitleLower)
                  THEN <<".">> \o settings.use_forced_extension ELSE <<>>
    IN IF l.language_tag # <<>>
       THEN /\ LastReturned
            /\ l.assembled = <<".">> \o l.language_tag \o region \o sdh \o forced
       ELSE /\ LastReturned
            /\ \/ l.assembled = <<".">> \o LastTag("title")
               \/ l.assembled = <<".">> \o str(last.stream_info["index"])

\* C7: without a language tag (language absent, default_language empty) the
\* tag is '.' and the title in its original case with whitespace
\* hyphenated if use_title_failback is set and the title is not empty, and
\* '.' and the decimal stream index otherwise.
C7_FallbackChain ==
  (LastIsMapping /\ LastLanguageAbsent /\ settings.default_language = <<>>) =>
    /\ LastReturned
    /\ LastSubtitleTag[1] = "."
    /\ IF settings.use_title_failback /\ ~ LastTitleAbsent
       THEN LET title == LastTag("title")
            IN /\ Len(LastSubtitleTag) = Len(title) + 1
               /\ \A k \in 1..Len(title) :
                    LastSubtitleTag[k + 1] =
                      IF title[k] \in {" ", "\t", "\n", "\r", "\f"}
                      THEN "-" ELSE title[k]
       ELSE LET digits == Tail(LastSubtitleTag)
            IN /\ DecimalValue(digits) = last.stream_info["index"]
               /\ (Len(digits) > 1 => digits[1] # "0")
    /\ ( /\ settings.use_title_failback
         /\ LastTag("title") = <<"D", "i", "r", "e", "c", "t", "o", "r", " ",
                                 "C", "o", "m", "m", "e", "n", "t", "a", "r", "y">> )
       => LastSubtitleTag = <<".", "D", "i", "r", "e", "c", "t", "o", "r", "-",
                              "C", "o", "m", "m", "e", "n", "t", "a", "r", "y">>
    /\ ( /\ LastTitleAbsent
         /\ last.stream_info["index"] = 4 )
       => LastSubtitleTag = <<".", "4">>

\* C7 witness: a stream without language got its mixed-case title as tag.
C7_Witness ==
  /\ LastIsMapping
  /\ LastLanguageAbsent
  /\ settings.default_language = <<>>
  /\ settings.use_title_failback
  /\ LastTag("title") = <<"D", "i", "r", "e", "c", "t", "o", "r", " ",
                          "C", "o", "m", "m", "e", "n", "t", "a", "r", "y">>
  /\ sub_streams # <<>>

\* C8: for a Spanish stream with use_regional, a title with latin or
\* america gives the language tag 'ea' under latin_spanish '1' (a region MX
\* from mexic is kept) and the region '419' under latin_spanish '2'; the
\* title 'Latin America' under '1' gives exactly the tag '.ea'.
C8_SpanishLayering ==
  ( /\ LastIsMapping
    /\ last.locals.language.alpha2 = <<"e", "s">>
    /\ settings.use_regional
    /\ \/ Contains(<<"l", "a", "t", "i", "n">>, LastTitleLower)
       \/ Contains(<<"a", "m", "e", "r", "i", "c", "a">>, LastTitleLower) )
  =>
    /\ LastReturned
    /\ settings.latin_spanish = "1" =>
         /\ last.locals.language_tag = <<"e", "a">>
         /\ Contains(<<"m", "e", "x", "i", "c">>, LastTitleLower)
              => last.locals.region_tag = <<"M", "X">>
    /\ settings.latin_spanish = "2" =>
         last.locals.region_tag = <<"4", "1", "9">>
    /\ ( /\ settings.latin_spanish = "1"
         /\ LastTag("title") = <<"L", "a", "t", "i", "n", " ",
                                 "A", "m", "e", "r", "i", "c", "a">> )
       => LastSubtitleTag = <<".", "e", "a">>

\* C9 as claimed: every maximal run of whitespace of the assembled tag
\* becomes a single hyphen.
C9_WhitespaceRunsCollapse ==
  (LastIsMapping /\ LastReturned) =>
    LastSubtitleTag = CollapseRuns(last.locals.assembled)

\* C9 as amended: every whitespace character of the assembled tag becomes
\* one hyphen of its own, so a run of k of them becomes k hyphens, and the
\* other characters stay as they are.
C9_EachWhitespaceCharOneHyphen ==
  (LastIsMapping /\ LastReturned) =>
    /\ Len(LastSubtitleTag) = Len(last.locals.assembled)
    /\ \A k \in 1..Len(LastSubtitleTag) :
         \/ /\ last.locals.assembled[k] \in {" ", "\t", "\n", "\r", "\f"}
            /\ LastSubtitleTag[k] = "-"
         \/ /\ last.locals.assembled[k] \notin {" ", "\t", "\n", "\r", "\f"}
            /\ LastSubtitleTag[k] = last.locals.assembled[k]
    /\ last.locals.assembled =
           <<".", "D", "i", "r", "e", "c", "t", "o", "r", " ", " ",
             "C", "o", "m", "m", "e", "n", "t", "a", "r", "y">>
         => LastSubtitleTag =
              <<".", "D", "i", "r", "e", "c", "t", "o", "r", "-", "-",
                "C", "o", "m", "m", "e", "n", "t", "a", "r", "y">>

\* C9 witness: a tag with two adjacent spaces was sanitized and appended.
C9_Witness ==
  /\ LastIsMapping
  /\ LastReturned
  /\ sub_streams # <<>>
  /\ \E k \in 1..(Len(last.locals.assembled) - 1) :
       last.locals.assembled[k] = " " /\ last.locals.assembled[k + 1] = " "

\* C10: for a stream without a codec name, or with an empty one,
\* test_stream_needs_processing returns false and raises nothing.
C10_MissingCodecIsFalse ==
  (LastIsFilter /\ ~ Truthy(Get(last.stream_info, "codec_name"))) =>
    (LastReturned /\ ~ last.ret)

\* The output groups of exec_command: its last four arguments per entry of
\* sub_streams are '-map', '0:s:<stream_id>', '-y' and the path of the
\* original file with '<tag>.srt' in place of its extension, in the order
\* of the entries, and no other argument is '-map'.
OutputGroupsFollowEntries(command, entries) ==
  LET n == Len(entries)
  IN /\ Len(command) >= 4 * n
     /\ \A k \in 1..n :
          LET at == Len(command) - 4 * (n - k + 1)
          IN /\ command[at + 1] = <<"-", "m", "a", "p">>
             /\ command[at + 2] = <<"0", ":", "s", ":">> \o str(entries[k].stream_id)
             /\ command[at + 3] = <<"-", "y">>
             /\ command[at + 4] = <<"/", "m", "/", "a">>
                                    \o entries[k].subtitle_tag
                                    \o <<".", "s", "r", "t">>
     /\ Cardinality({i \in 1..Len(command) : command[i] = <<"-", "m", "a", "p">>}) = n

\* C11: every call of custom_stream_mapping appends exactly one entry with
\* the stream_id it was given and the tag it computed, and leaves the
\* earlier entries and all other state as they were; nothing else changes
\* sub_streams; and on_worker_process emits one output group per entry, in
\* the order of the entries.
C11_AppendOnlyOrdered ==
  [][ /\ pc = "map" =>
           /\ Len(sub_streams') = Len(sub_streams) + 1
           /\ SubSeq(sub_streams', 1, Len(sub_streams)) = sub_streams
           /\ sub_streams'[Len(sub_streams')].stream_id = stream_count
           /\ sub_streams'[Len(sub_streams')].subtitle_tag
                = last'.locals.subtitle_tag
           /\ UNCHANGED <<settings, probe, exec_command>>
      /\ pc # "map" => sub_streams' = sub_streams
      /\ pc' = "built" => OutputGroupsFollowEntries(exec_command', sub_streams')
    ]_vars

====
